---- MODULE Spec2Model ----
(***************************************************************************)
(* State-machine model of src/src/jsonl-stream-parser.ts (cchistory).      *)
(*                                                                         *)
(* The generators of the source are modelled at the granularity of their   *)
(* suspension points: an action is the code that runs between two yields   *)
(* (or between a yield and the end of the stream).  A yield appends the    *)
(* command to the history variable "emitted" and parks the generator in a  *)
(* "yield..." position, where the consumer either resumes it (next()) or   *)
(* stops it (return()).                                                    *)
(*                                                                         *)
(* A raw line is modelled by what the code looks at: whether it is blank,  *)
(* which of the classifier's literal markers its text contains, whether    *)
(* JSON.parse accepts it and the entry JSON.parse returns.  Fields of an   *)
(* entry the parser only copies (timestamp, description, cwd) are left     *)
(* out of the records.                                                     *)
(***************************************************************************)
EXTENDS Integers, Sequences, FiniteSets, TLC

(***************************************************************************)
(* Bounds of the model.                                                    *)
(***************************************************************************)
\* the longest command text given to normalizeBashCommand
MaxText == 4

\* tool-use identifiers that freely chosen lines may carry: 1 .. NumIds
NumIds == 1
\* freely chosen lines read in one run of the direct caller (over its streams)
MaxLines == 3
\* freely chosen lines read in one run of the project stream (over its files)
MaxProjectLines == 3
\* freely chosen lines that follow the run of tool uses of a long file
MaxTailLines == 3
\* createFileStream calls made on one parser by a direct caller
MaxStreams == 2
\* directory entries of the project
NumFiles == 2

\* private maxPendingEntries = 100
maxPendingEntries == 100

(***************************************************************************)
(* Text.  A string is a sequence of characters; the two tags of a user     *)
(* bash-input are single symbols of that sequence.                         *)
(***************************************************************************)
NL == "\n"
BS == "\\"
OpenTag == "<bash-input>"
CloseTag == "</bash-input>"
WhiteSpace == {" ", NL, "\t", "\r"}

\* a trim that removes one leading white-space character only
TrimStartOnce(s) == IF s # <<>> /\ Head(s) \in WhiteSpace THEN Tail(s) ELSE s

RECURSIVE TrimStart(_)
\* String.prototype.trim, the leading half
TrimStart(s) ==
  IF s = <<>> THEN <<>>
  ELSE IF Head(s) \in WhiteSpace THEN TrimStart(Tail(s)) ELSE s

RECURSIVE TrimEnd(_)
\* String.prototype.trim, the trailing half
TrimEnd(s) ==
  IF s = <<>> THEN <<>>
  ELSE IF s[Len(s)] \in WhiteSpace THEN TrimEnd(SubSeq(s, 1, Len(s) - 1)) ELSE s

\* String.prototype.trim
Trim(s) == TrimEnd(TrimStart(s))

RECURSIVE SplitLines(_, _)
\* command.split('\n'): cur is the piece being collected
SplitLines(s, cur) ==
  IF s = <<>> THEN <<cur>>
  ELSE IF Head(s) = NL THEN <<cur>> \o SplitLines(Tail(s), <<>>)
  ELSE SplitLines(Tail(s), Append(cur, Head(s)))

RECURSIVE JoinLines(_)
\* .join('\\n'): the separator is the two characters backslash and n
JoinLines(ls) ==
  IF ls = <<>> THEN <<>>
  ELSE IF Len(ls) = 1 THEN ls[1]
  ELSE ls[1] \o <<BS, "n">> \o JoinLines(Tail(ls))

\* normalizeBashCommand: split on line breaks, trim, drop empty, rejoin
normalizeBashCommand(command) ==
  LET pieces  == SplitLines(command, <<>>)
      trimmed == [i \in 1..Len(pieces) |-> Trim(pieces[i])]
      NonEmpty(l) == Len(l) > 0
  IN  JoinLines(SelectSeq(trimmed, NonEmpty))

(***************************************************************************)
(* Decoded entries (ConversationEntry) and their content blocks.           *)
(* A block is a record with every field present; id 0, tool_use_id 0 and   *)
(* the empty command stand for a field that is absent (or empty, which the *)
(* code treats alike: both are falsy).  Block type "null" is a JSON null   *)
(* among the blocks.                                                       *)
(***************************************************************************)
ToolUse(name, id, command) ==
  [type |-> "tool_use", name |-> name, id |-> id, command |-> command,
   tool_use_id |-> 0, is_error |-> "absent"]

ToolResult(tid, err) ==
  [type |-> "tool_result", name |-> "", id |-> 0, command |-> <<>>,
   tool_use_id |-> tid, is_error |-> err]

TextBlock ==
  [type |-> "text", name |-> "", id |-> 0, command |-> <<>>,
   tool_use_id |-> 0, is_error |-> "absent"]

NullBlock ==
  [type |-> "null", name |-> "", id |-> 0, command |-> <<>>,
   tool_use_id |-> 0, is_error |-> "absent"]

\* message.content: "missing" (absent or falsy), "text" (a non-empty
\* string), "blocks" (an array) or "object" (any other truthy value)
Blocks(bs) == [form |-> "blocks", text |-> <<>>, blocks |-> bs]
Text(t) == [form |-> "text", text |-> t, blocks |-> <<>>]
Missing == [form |-> "missing", text |-> <<>>, blocks |-> <<>>]
Object == [form |-> "object", text |-> <<>>, blocks |-> <<>>]

Entry(type, content) == [type |-> type, content |-> content]

(***************************************************************************)
(* Raw lines.  kind: "blank" (empty after trim), "garbage" (JSON.parse     *)
(* throws SyntaxError) or "json".  marks: the literal markers that occur   *)
(* in the text of the line; a JSON serializer may spell a string with      *)
(* \u escapes, so the marks are part of the line, not a function of the    *)
(* decoded entry.                                                          *)
(***************************************************************************)
MarkBash == "\"Bash\""
MarkResult == "\"tool_result\""
MarkInput == "<bash-input>"

Line(kind, marks, entry) == [kind |-> kind, marks |-> marks, entry |-> entry]

NoEntry == Entry("other", Missing)

\* lineContainsCommands: the three substring tests
lineContainsCommands(line) ==
  \/ MarkBash \in line.marks
  \/ MarkResult \in line.marks
  \/ MarkInput \in line.marks

(***************************************************************************)
(* Commands.  success is "undefined" until the code assigns it.  origin    *)
(* is the identity of the object: the stream and line that created it.     *)
(***************************************************************************)
BoolStr(b) == IF b THEN "true" ELSE "false"

\* line 102: bashCommand.success = true
NoIdSuccess == "true"

\* the negation left out
ResultSuccessNotNegated(is_error) == BoolStr(is_error)

\* line 112: command.success = !toolResult.is_error
ResultSuccess(is_error) == BoolStr(~is_error)

\* the assignment left out
UserSuccessUnset == "undefined"

\* line 122: userCommand.success = true
UserSuccess == "true"

\* the assignment left out
OrphanSuccessUnset == "undefined"

\* line 230: command.success = true
OrphanSuccess == "true"

\* the test left out: every Bash command is stored
HasToolUseIdAlways(id) == TRUE

\* line 98: if (toolUseId)
HasToolUseId(id) == id # 0

\* createClaudeCommand: null (the empty sequence) when the block has no
\* command, else the new record, success not yet set
createClaudeCommand(command, source, origin) ==
  IF command = <<>> THEN <<>>
  ELSE <<[command |-> normalizeBashCommand(command), source |-> source,
          success |-> "undefined", origin |-> origin]>>

\* line 188: block.type === 'tool_use' && block.name === 'Bash'
IsBashBlock(b) == b.type = "tool_use" /\ b.name = "Bash"

\* line 211: block.type === 'tool_result' && block.tool_use_id
IsResultBlock(b) == b.type = "tool_result" /\ b.tool_use_id # 0

\* the two predicates the code passes to content.find
Matches(pred, b) == IF pred = "bash" THEN IsBashBlock(b) ELSE IsResultBlock(b)

\* content.find(pred): index of the first block that satisfies pred, looking
\* at the blocks in order; 0 when none does.  Evaluating the predicate on a
\* JSON null throws, which FindThrows reports.
LastMatch(bs, pred) ==
  LET hits == {i \in 1..Len(bs) : bs[i].type # "null" /\ Matches(pred, bs[i])}
  IN  IF hits = {} THEN 0 ELSE CHOOSE i \in hits : \A j \in hits : i >= j

FirstMatch(bs, pred) ==
  LET hits == {i \in 1..Len(bs) : bs[i].type # "null" /\ Matches(pred, bs[i])}
  IN  IF hits = {} THEN 0 ELSE CHOOSE i \in hits : \A j \in hits : i <= j

\* whether content.find(pred) throws a TypeError: the content has no find
\* method, or a null block is reached before the first match
FindThrows(content, pred) ==
  \/ content.form \in {"text", "object"}
  \/ /\ content.form = "blocks"
     /\ LET m == FirstMatch(content.blocks, pred)
        IN  \E i \in 1..Len(content.blocks) :
              /\ content.blocks[i].type = "null"
              /\ (m = 0 \/ i < m)

\* findBashToolBlock: index of the first Bash tool_use block, 0 if none
findBashToolBlock(content) == FirstMatch(content.blocks, "bash")

\* extractBashCommand: only assistant entries with content; first Bash block
extractBashCommand(entry, origin) ==
  IF entry.type # "assistant" \/ entry.content.form = "missing" THEN <<>>
  ELSE LET i == findBashToolBlock(entry.content)
       IN  IF i = 0 THEN <<>>
           ELSE createClaudeCommand(entry.content.blocks[i].command, "bash", origin)

\* extractToolUseId: the id of the first Bash block, 0 for null
extractToolUseId(entry) ==
  IF entry.type # "assistant" \/ entry.content.form = "missing" THEN 0
  ELSE LET i == findBashToolBlock(entry.content)
       IN  IF i = 0 THEN 0 ELSE entry.content.blocks[i].id

\* extractToolResult: only user entries with array content; the first
\* tool_result block with a tool_use_id; is_error ?? false
extractToolResult(entry) ==
  IF entry.type # "user" \/ entry.content.form = "missing" THEN <<>>
  ELSE IF entry.content.form = "text" THEN <<>>
  ELSE LET i == FirstMatch(entry.content.blocks, "result")
       IN  IF i = 0 THEN <<>>
           ELSE <<[tool_use_id |-> entry.content.blocks[i].tool_use_id,
                   is_error |-> (entry.content.blocks[i].is_error = "true")]>>

\* findUserCommand: /<bash-input>(.*?)<\/bash-input>/, where . matches no
\* line break: the leftmost opening tag that a closing tag follows on the
\* same line, up to the nearest such closing tag; trimmed.  <<>> when there
\* is no match (and also when the match is empty, which the caller treats
\* the same: !command).
findUserCommand(content) ==
  LET Closes(i) == {j \in (i + 1)..Len(content) :
                      /\ content[j] = CloseTag
                      /\ \A k \in (i + 1)..(j - 1) : content[k] # NL}
      starts == {i \in 1..Len(content) : content[i] = OpenTag /\ Closes(i) # {}}
  IN  IF starts = {} THEN <<>>
      ELSE LET i == CHOOSE x \in starts : \A y \in starts : x <= y
               j == CHOOSE x \in Closes(i) : \A y \in Closes(i) : x <= y
           IN  Trim(SubSeq(content, i + 1, j - 1))

\* extractUserCommand: only user entries whose content is a string
extractUserCommand(entry, origin) ==
  IF entry.type # "user" \/ entry.content.form = "missing" THEN <<>>
  ELSE IF entry.content.form # "text" THEN <<>>
  ELSE createClaudeCommand(findUserCommand(entry.content.text), "user", origin)

\* whether the body of processEntry's try block throws for this line, and
\* which error: JSON.parse (SyntaxError) or an extractor (TypeError).
\* "" when nothing is thrown.  An extractor throws before the code stores or
\* yields anything: the extractors that run for an entry of one type return
\* null for the other type.
EntryError(line) ==
  IF line.kind = "garbage" THEN "JSON syntax"
  ELSE IF /\ line.entry.type = "assistant"
          /\ line.entry.content.form # "missing"
          /\ FindThrows(line.entry.content, "bash")
       THEN "parsing"
  ELSE IF /\ line.entry.type = "user"
          /\ line.entry.content.form \notin {"missing", "text"}
          /\ FindThrows(line.entry.content, "result")
       THEN "parsing"
  ELSE ""

(***************************************************************************)
(* The pending table: a JavaScript Map, which iterates in insertion order  *)
(* and keeps the position of a key that is set again.                      *)
(***************************************************************************)
MapHas(m, id) == \E i \in 1..Len(m) : m[i].id = id

MapIndex(m, id) == CHOOSE i \in 1..Len(m) : m[i].id = id

\* what Map.prototype.get returns for a key the table does not hold
Undefined == [undefined |-> TRUE]

\* a lookup that returns the oldest entry whatever the key
MapGetFirst(m, id) == IF m = <<>> THEN Undefined ELSE m[1].cmd

\* Map.prototype.get
MapGet(m, id) == IF MapHas(m, id) THEN m[MapIndex(m, id)].cmd ELSE Undefined

\* a table that adds an entry on every set
MapSetAppend(m, id, cmd) == Append(m, [id |-> id, cmd |-> cmd])

\* Map.prototype.set
MapSet(m, id, cmd) ==
  IF MapHas(m, id) THEN [m EXCEPT ![MapIndex(m, id)].cmd = cmd]
  ELSE Append(m, [id |-> id, cmd |-> cmd])

\* Map.prototype.delete
MapDelete(m, id) ==
  LET Other(e) == e.id # id IN SelectSeq(m, Other)

(***************************************************************************)
(* Diagnostics written with console.error.                                 *)
(***************************************************************************)
LineDiag(file, n, errorType) ==
  [kind |-> "line", file |-> file, line |-> n, errorType |-> errorType]
FileDiag(file) == [kind |-> "file", file |-> file, line |-> 0, errorType |-> ""]
DirDiag == [kind |-> "dir", file |-> 0, line |-> 0, errorType |-> ""]
FatalDiag == [kind |-> "fatal", file |-> 0, line |-> 0, errorType |-> ""]

\* a yield, as the history records it: the command as it is at that moment,
\* the stream and line being processed, and the yield statement that made it
Emission(cmd, file, n, via) == [cmd |-> cmd, file |-> file, at |-> n, via |-> via]

(***************************************************************************)
(* The try block of processEntry, up to its yield.  The result holds the   *)
(* pending table as the block leaves it, the commands it yields in order   *)
(* (with the yield statement of each) and the error it throws ("" if       *)
(* none).                                                                  *)
(* An entry passes at most one of the three extractors (they ask for       *)
(* different entry types and content forms), so there is at most one       *)
(* yield, and the table is already in its final state when it happens.     *)
(***************************************************************************)
processEntry(line, n, file, pending) ==
  LET err    == EntryError(line)
      origin == <<file, n>>
      bash   == extractBashCommand(line.entry, origin)
      id     == extractToolUseId(line.entry)
      \* lines 96-105
      p1     == IF bash # <<>> /\ HasToolUseId(id) THEN MapSet(pending, id, bash[1])
                ELSE pending
      y1     == IF bash # <<>> /\ ~HasToolUseId(id)
                THEN <<[cmd |-> [bash[1] EXCEPT !.success = NoIdSuccess],
                        via |-> "noid"]>>
                ELSE <<>>
      \* lines 108-117
      res    == extractToolResult(line.entry)
      got    == IF res # <<>> THEN MapGet(p1, res[1].tool_use_id) ELSE Undefined
      found  == got # Undefined
      p2     == IF found THEN MapDelete(p1, res[1].tool_use_id) ELSE p1
      y2     == IF found
                THEN <<[cmd |-> [got
                                   EXCEPT !.success = ResultSuccess(res[1].is_error)],
                        via |-> "result"]>>
                ELSE <<>>
      \* lines 120-124
      user   == extractUserCommand(line.entry, origin)
      y3     == IF user # <<>>
                THEN <<[cmd |-> [user[1] EXCEPT !.success = UserSuccess], via |-> "user"]>>
                ELSE <<>>
  IN  IF err # ""
      THEN [pending |-> pending, yields |-> <<>>, error |-> err]
      ELSE [pending |-> p2, yields |-> y1 \o y2 \o y3, error |-> ""]

\* the commands, by origin, that a table holds
Origins(pending) == {pending[k].cmd.origin : k \in DOMAIN pending}

\* the commands that were in the table before processEntry ran and that it
\* neither kept nor yielded: Map.set on an existing key dropped them
Dropped(before, r) ==
  Origins(before)
    \ (Origins(r.pending) \cup {r.yields[k].cmd.origin : k \in DOMAIN r.yields})

(***************************************************************************)
(* The inputs: the raw lines a log file may hold.                          *)
(***************************************************************************)
ToolIds == 1..NumIds

Cmd == <<"l", "s", NL>>

Blank == Line("blank", {}, NoEntry)
Garbage(marks) == Line("garbage", marks, NoEntry)
PlainLine == Line("json", {}, Entry("assistant", Blocks(<<TextBlock>>)))
BashUse(id) ==
  Line("json", {MarkBash}, Entry("assistant", Blocks(<<ToolUse("Bash", id, Cmd)>>)))
ResultLine(tid, err) ==
  Line("json", {MarkResult}, Entry("user", Blocks(<<ToolResult(tid, err)>>)))
UserLine ==
  Line("json", {MarkInput}, Entry("user", Text(<<OpenTag, " ", "l", CloseTag>>)))
\* an assistant entry whose content is a string that mentions "Bash"
BadShape == Line("json", {MarkBash}, Entry("assistant", Text(<<"B">>)))

FileLines ==
  {Blank, Garbage({}), Garbage({MarkBash}), PlainLine, BadShape, UserLine, BashUse(0)}
    \cup {BashUse(i) : i \in ToolIds}
    \cup {ResultLine(i, e) : i \in ToolIds, e \in {"absent", "true"}}

ProjectLines == {BashUse(1), BashUse(2), ResultLine(1, "true")}

\* a long file begins with a run of Bash tool uses that get no result, each
\* with an identifier of its own, two more than the table may keep, then
\* blank lines up to the line before the second multiple of
\* maxPendingEntries, and continues with freely chosen lines
BulkUses == maxPendingEntries + 2
BulkPrefix == 2 * maxPendingEntries - 1
PrefixLine(n) == IF n <= BulkUses THEN BashUse(NumIds + n) ELSE Blank
BulkLines ==
  {Blank, Garbage({}), Garbage({MarkBash}), BadShape, UserLine, BashUse(0),
   BashUse(1), ResultLine(1, "true"), ResultLine(NumIds + 1, "absent")}

\* another long file: every line of the opening run is a Bash tool use that
\* gets no result, and the lines after it may add two more
GrowthLine(n) == BashUse(NumIds + n)
GrowthLines ==
  {Blank, BashUse(1), BashUse(NumIds + BulkPrefix + 1),
   ResultLine(NumIds + 1, "absent")}

\* lines whose text and whose decoded entry differ in what they show.  JSON
\* lets a string spell any character as \uXXXX, so the text of a line need
\* not contain the marker that its decoded entry contains: the marks of
\* these lines are empty, their entries are those of BashUse, ResultLine
\* and UserLine.
EscapedBashUse(id) ==
  Line("json", {}, Entry("assistant", Blocks(<<ToolUse("Bash", id, Cmd)>>)))
EscapedResult(tid, err) ==
  Line("json", {}, Entry("user", Blocks(<<ToolResult(tid, err)>>)))
EscapedUserLine ==
  Line("json", {}, Entry("user", Text(<<OpenTag, " ", "l", CloseTag>>)))

\* entries with more than one block
Cmd2 == <<"p", "w", "d">>
UseBlocks(bs) == Line("json", {MarkBash}, Entry("assistant", Blocks(bs)))
ResultBlocks(bs) == Line("json", {MarkResult}, Entry("user", Blocks(bs)))
WideLines ==
  {BashUse(1), BashUse(2), ResultLine(1, "true"), ResultLine(2, "absent"),
   EscapedBashUse(1), EscapedResult(1, "true"), EscapedUserLine,
   UseBlocks(<<ToolUse("Bash", 1, Cmd), ToolUse("Bash", 2, Cmd2)>>),
   UseBlocks(<<TextBlock, ToolUse("Read", 1, Cmd2), ToolUse("Bash", 2, Cmd)>>),
   UseBlocks(<<ToolUse("Bash", 1, <<>>), ToolUse("Bash", 2, Cmd2)>>),
   ResultBlocks(<<ToolResult(1, "absent"), ToolResult(2, "true")>>),
   ResultBlocks(<<ToolResult(0, "true"), ToolResult(2, "true")>>)}

(***************************************************************************)
(* The project directory: what readdir and stat return.  File f is the     *)
(* f-th name readdir lists.  st: "ok", "gone" (stat rejects: the file      *)
(* disappeared after readdir, or is a dangling link) or "unreadable" (stat *)
(* succeeds, reading fails from the start).                                *)
(***************************************************************************)
Files == 1..NumFiles

FileAttr ==
  {[jsonl |-> TRUE, mtime |-> t, st |-> x] :
      t \in 1..NumFiles, x \in {"ok", "gone", "unreadable"}}
    \cup {[jsonl |-> FALSE, mtime |-> 1, st |-> "ok"]}

NoFiles == [f \in Files |-> [jsonl |-> FALSE, mtime |-> 1, st |-> "ok"]]

RECURSIVE InsertByMtime(_, _, _)
\* x placed behind every element whose mtime is not later than its own
InsertByMtime(sorted, x, attr) ==
  IF sorted = <<>> THEN <<x>>
  ELSE IF attr[Head(sorted)].mtime - attr[x].mtime <= 0
       THEN <<Head(sorted)>> \o InsertByMtime(Tail(sorted), x, attr)
       ELSE <<x>> \o sorted

\* the sort left out: the files stay in readdir's order
SortByMtimeUnsorted(s, attr) == s

RECURSIVE SortByMtime(_, _)
\* fileStats.sort((a, b) => a.mtime.getTime() - b.mtime.getTime()): stable
SortByMtime(s, attr) ==
  IF s = <<>> THEN <<>>
  ELSE InsertByMtime(SortByMtime(SubSeq(s, 1, Len(s) - 1), attr), s[Len(s)], attr)

\* readdir's names in order, as a sequence
Listing == [i \in 1..NumFiles |-> i]

(***************************************************************************)
(* try / catch.  An error thrown in a frame is handled by the innermost    *)
(* frame of the call stack whose body is inside a try with a catch.        *)
(***************************************************************************)
\* processEntry without its try / catch
HasCatchOuterOnly(frame) ==
  frame \in {"createFileStream", "createProjectStream",
             "createResilientCommandStream"}

\* the two project-level generators without their try / catch
HasCatchFileOnly(frame) == frame \in {"processEntry", "createFileStream"}

HasCatch(frame) ==
  frame \in {"processEntry", "createFileStream", "createProjectStream",
             "createResilientCommandStream"}

RECURSIVE Handler(_)
Handler(stack) ==
  IF stack = <<>> THEN "none"
  ELSE IF HasCatch(stack[Len(stack)]) THEN stack[Len(stack)]
  ELSE Handler(SubSeq(stack, 1, Len(stack) - 1))

ProjectStack == <<"createResilientCommandStream", "createProjectStream">>

FileStack(m) ==
  (IF m = "project" THEN ProjectStack ELSE <<>>)
    \o <<"createFileStream", "processLines">>

(***************************************************************************)
(* State.                                                                  *)
(*   mode            who drives the parser: "project"                      *)
(*                   (createResilientCommandStream), "direct" (a caller of *)
(*                   createFileStream on one parser), "bulk" or "growth"   *)
(*                   (a direct caller reading one long file), "wide" (a    *)
(*                   direct caller reading one file of many line shapes)   *)
(*   dirOK, fattr    the directory: whether readdir succeeds, the files    *)
(*   pc              "start", "between" (no file stream is running),       *)
(*                   "next" (processLines awaits the next line),           *)
(*                   "yieldEntry" (suspended at a yield of processEntry),  *)
(*                   "yieldFlush" (suspended at the yield of               *)
(*                   flushPendingCommands), "done"                         *)
(*   order, idx      fileStats after the sort, the loop position           *)
(*   cur, fileOK     the file of the running stream, whether it reads      *)
(*   streams         createFileStream calls so far                         *)
(*   lineNumber, entryCount   the locals of processLines                   *)
(*   pendingCommands the Map of the parser                                 *)
(*   fi, flushKind   position of the iteration of flushPendingCommands and *)
(*                   its caller ("cleanup" or "eof")                       *)
(*   rlOpen, fds     the readline interface is open; files whose           *)
(*                   descriptor is open                                    *)
(*   escaped         an error left the outermost generator                 *)
(*   stopped         the consumer ended the iteration early                *)
(* History:                                                                *)
(*   emitted, diag   the commands yielded, the diagnostics written         *)
(*   seen            the lines read from the current file                  *)
(*   flushes         the line numbers of the current file at which the     *)
(*                   periodic cleanup flushed                              *)
(*   lastEnd         how the last file stream ended: "" (none has, or one  *)
(*                   is running), "eof", "readerror", "lineerror",         *)
(*                   "return"                                              *)
(*   listed          lines 142-155 of createProjectStream completed        *)
(*   free, prefixLeft  how many lines were freely chosen; how many lines   *)
(*                   of the opening run of a long file remain              *)
(*   replaced        the commands (by origin) that a later tool use with   *)
(*                   the same identifier replaced in the pending table     *)
(* The methods that keep no state between calls:                           *)
(*   input, output   the argument of the call, the value returned          *)
(*   applied         how many calls have returned                          *)
(***************************************************************************)
VARIABLES mode, dirOK, fattr, pc, order, idx, cur, fileOK, streams,
          lineNumber, entryCount, pendingCommands, fi, flushKind,
          rlOpen, fds, escaped, stopped,
          emitted, diag, seen, flushes, lastEnd, listed, free, prefixLeft,
          replaced, input, output, applied

\* what no step of the parser's generators changes
env == <<mode, dirOK, fattr, input, output, applied>>
vars == <<mode, dirOK, fattr, pc, order, idx, cur, fileOK, streams,
          lineNumber, entryCount, pendingCommands, fi, flushKind,
          rlOpen, fds, escaped, stopped,
          emitted, diag, seen, flushes, lastEnd, listed, free, prefixLeft,
          replaced, input, output, applied>>

\* new JSONLStreamParser(), before any call
InitParser ==
  /\ order = <<>> /\ idx = 1 /\ cur = 0 /\ fileOK = TRUE /\ streams = 0
  /\ lineNumber = 0 /\ entryCount = 0
  /\ pendingCommands = <<>> /\ fi = 0 /\ flushKind = ""
  /\ rlOpen = FALSE /\ fds = {} /\ escaped = FALSE /\ stopped = FALSE
  /\ emitted = <<>> /\ diag = <<>> /\ seen = <<>> /\ flushes = {}
  /\ lastEnd = "" /\ listed = FALSE
  /\ free = 0 /\ prefixLeft = 0
  /\ replaced = {}

\* no call of a stateless method is modelled
NoCall == input = <<>> /\ output = <<>> /\ applied = 0

\* the fields of the parser and the position of its generators
parser == <<pc, order, idx, cur, fileOK, streams, lineNumber, entryCount,
            pendingCommands, fi, flushKind, rlOpen, fds, escaped, stopped,
            emitted, diag, seen, flushes, lastEnd, listed, free, prefixLeft,
            replaced>>

\* createResilientCommandStream(projectPath) is about to run
InitProject ==
  /\ mode = "project" /\ pc = "start"
  /\ dirOK \in BOOLEAN
  /\ fattr \in [Files -> FileAttr]
  /\ (~dirOK => fattr = NoFiles)
  /\ InitParser /\ NoCall

\* a caller holds a new parser and is about to call createFileStream
InitDirect ==
  /\ mode = "direct" /\ pc = "between"
  /\ dirOK = TRUE /\ fattr = NoFiles
  /\ InitParser /\ NoCall

InitBulk ==
  /\ mode = "bulk" /\ pc = "between"
  /\ dirOK = TRUE /\ fattr = NoFiles
  /\ InitParser /\ NoCall

InitWide ==
  /\ mode = "wide" /\ pc = "between"
  /\ dirOK = TRUE /\ fattr = NoFiles
  /\ InitParser /\ NoCall

InitGrowth ==
  /\ mode = "growth" /\ pc = "between"
  /\ dirOK = TRUE /\ fattr = NoFiles
  /\ InitParser /\ NoCall

\* the command texts given to normalizeBashCommand
Chars == {"a", " ", NL, BS, "n"}
Texts == UNION {[1..n -> Chars] : n \in 0..MaxText}

(***************************************************************************)
(* extractProjectRoot and extractCwdFromFile.  A line is what JSON.parse    *)
(* makes of it: json is FALSE when it throws (or yields null, whose cwd     *)
(* cannot be read), has says that the entry has a cwd field, val is its    *)
(* text.  A file has a name that ends in .jsonl or not, the lines its      *)
(* stream delivers, and err when the stream fails after them.              *)
(***************************************************************************)
\* the default of the parameter maxLines of extractCwdFromFile
maxLines == 10

CwdLine(json, has, val) == [json |-> json, has |-> has, val |-> val]
NoCwdLine == CwdLine(TRUE, FALSE, <<>>)
RootFile(jsonl, lines, err) == [jsonl |-> jsonl, lines |-> lines, err |-> err]

\* if (entry.cwd): the field is there and its text is not empty
Truthy(line) == line.json /\ line.has /\ line.val # <<>>

NoRoot == [found |-> FALSE, cwd |-> <<>>, threw |-> FALSE]
Root(cwd) == [found |-> TRUE, cwd |-> cwd, threw |-> FALSE]
RootThrew == [found |-> FALSE, cwd |-> <<>>, threw |-> TRUE]

\* the test of the loop on the count of the line just read, one line early
LimitReachedEarly(lineCount) == lineCount >= maxLines

\* if (++lineCount > maxLines) break
LimitReached(lineCount) == lineCount > maxLines

\* the loop of extractCwdFromFile over the lines still to come
RECURSIVE ScanCwd(_, _, _)
ScanCwd(lines, lineCount, err) ==
  IF lines = <<>> THEN (IF err THEN RootThrew ELSE NoRoot)
  ELSE IF LimitReached(lineCount + 1) THEN NoRoot
  ELSE IF Truthy(Head(lines)) THEN Root(Head(lines).val)
  ELSE ScanCwd(Tail(lines), lineCount + 1, err)

extractCwdFromFile(file) == ScanCwd(file.lines, 0, file.err)

\* the loop of extractProjectRoot over the files of the listing
RECURSIVE TryFiles(_)
TryFiles(files) ==
  IF files = <<>> THEN NoRoot
  ELSE IF ~Head(files).jsonl THEN TryFiles(Tail(files))
  ELSE LET r == extractCwdFromFile(Head(files))
       IN IF r.found THEN r ELSE TryFiles(Tail(files))

\* extractProjectRoot(projectPath); ok: readdir succeeds
extractProjectRoot(ok, files) == IF ok THEN TryFiles(files) ELSE NoRoot

\* the lines of file f: pad lines without a cwd, then the tail; the cwd of
\* line i of file f names the file and the line
RootPads == {0, maxLines - 1, maxLines}
TailKinds == {"bad", "empty", "cwd"}
RootTails == UNION {[1..n -> TailKinds] : n \in 0..2}
TailLine(f, i, kind) ==
  CASE kind = "bad" -> CwdLine(FALSE, FALSE, <<>>)
    [] kind = "empty" -> CwdLine(TRUE, TRUE, <<>>)
    [] OTHER -> CwdLine(TRUE, TRUE, <<"/", f, i>>)
RootLines(f, pad, tail) ==
  [i \in 1..(pad + Len(tail)) |->
     IF i <= pad THEN NoCwdLine ELSE TailLine(f, i, tail[i - pad])]
\* the shapes of a file, and file f of a shape
RootShapes ==
  {<<TRUE, pad, tail, err>> : pad \in RootPads, tail \in RootTails, err \in BOOLEAN}
  \cup {<<FALSE, 0, tail, FALSE>> : tail \in {<<>>, <<"cwd">>}}
ShapedFile(f, sh) == RootFile(sh[1], RootLines(f, sh[2], sh[3]), sh[4])

\* a caller is about to ask for the root of a project directory
InitRoot ==
  /\ mode = "root" /\ pc = "idle"
  /\ dirOK \in BOOLEAN /\ fattr = NoFiles
  /\ InitParser
  /\ \E d \in [1..NumFiles -> RootShapes] :
       input = [f \in 1..NumFiles |-> ShapedFile(f, d[f])]
  /\ output = NoRoot /\ applied = 0

\* a caller is about to normalize a command text
InitNormalize ==
  /\ mode = "normalize" /\ pc = "idle"
  /\ dirOK = TRUE /\ fattr = NoFiles
  /\ InitParser
  /\ input \in Texts /\ output = <<>> /\ applied = 0

(***************************************************************************)
(* Where control goes.                                                     *)
(***************************************************************************)
\* the generator goes on inside the running stream
Park(newpc, p, e, d, f, k) ==
  /\ pc' = newpc /\ pendingCommands' = p /\ emitted' = e /\ diag' = d
  /\ fi' = f /\ flushKind' = k
  /\ UNCHANGED <<rlOpen, fds, idx, escaped, stopped, lastEnd>>

\* createFileStream returns after its finally block (rl.close()); the file
\* was read to its end or failed, so the read stream has closed itself
Ended(p, e, d) ==
  /\ pc' = "between" /\ pendingCommands' = p /\ emitted' = e /\ diag' = d
  /\ fi' = 0 /\ flushKind' = ""
  /\ rlOpen' = FALSE /\ fds' = fds \ {cur} /\ idx' = idx + 1
  /\ lastEnd' = "eof"
  /\ UNCHANGED <<escaped, stopped>>

\* flushPendingCommands, from the i-th value of the Map on: set success and
\* yield it, or, past the last one, clear the Map and return to the caller
flushPendingCommands(p, e, d, i, kind) ==
  IF i <= Len(p)
  THEN LET q == [p EXCEPT ![i].cmd.success = OrphanSuccess]
       IN  Park("yieldFlush", q,
                Append(e, Emission(q[i].cmd, cur, lineNumber', kind)), d, i, kind)
  ELSE IF kind = "cleanup" THEN Park("next", <<>>, e, d, 0, "")
  ELSE Ended(<<>>, e, d)

\* lines 66-68 of processLines and cleanupOldPendingCommands
cleanupOldPendingCommands(p, e, d) ==
  IF entryCount' % maxPendingEntries = 0 /\ Len(p) > maxPendingEntries
  THEN /\ flushPendingCommands(p, e, d, 1, "cleanup")
       /\ flushes' = flushes \cup {lineNumber'}
  ELSE /\ Park("next", p, e, d, 0, "")
       /\ flushes' = flushes

\* an error thrown while the file stream runs and not caught inside
\* processLines: the finally block of createFileStream closes the interface,
\* then the handler logs it
ThrowInFile(stack, why) ==
  LET h == Handler(stack)
  IN  /\ rlOpen' = FALSE /\ fds' = fds \ {cur}
      /\ fi' = 0 /\ flushKind' = "" /\ lastEnd' = why
      /\ UNCHANGED <<pendingCommands, emitted, stopped>>
      /\ CASE h = "createFileStream" ->
                /\ diag' = Append(diag, FileDiag(cur))
                /\ pc' = "between" /\ idx' = idx + 1 /\ escaped' = escaped
           [] h = "createProjectStream" ->
                /\ diag' = Append(diag, DirDiag)
                /\ pc' = "done" /\ idx' = idx /\ escaped' = escaped
           [] h = "createResilientCommandStream" ->
                /\ diag' = Append(diag, FatalDiag)
                /\ pc' = "done" /\ idx' = idx /\ escaped' = escaped
           [] OTHER ->
                /\ diag' = diag
                /\ pc' = "done" /\ idx' = idx /\ escaped' = TRUE

\* an error thrown by readdir or stat in createProjectStream
ThrowInProject ==
  LET h == Handler(ProjectStack)
  IN  /\ pc' = "done"
      /\ CASE h = "createProjectStream" ->
                diag' = Append(diag, DirDiag) /\ escaped' = escaped
           [] h = "createResilientCommandStream" ->
                diag' = Append(diag, FatalDiag) /\ escaped' = escaped
           [] OTHER -> diag' = diag /\ escaped' = TRUE

(***************************************************************************)
(* Actions.                                                                *)
(***************************************************************************)
\* createProjectStream, lines 142-155: readdir, filter, stat, sort
ListFiles ==
  /\ pc = "start"
  /\ LET jsonlFiles == SelectSeq(Listing, LAMBDA f : fattr[f].jsonl)
     IN  IF ~dirOK \/ \E i \in 1..Len(jsonlFiles) : fattr[jsonlFiles[i]].st = "gone"
         THEN ThrowInProject /\ UNCHANGED <<order, listed>>
         ELSE /\ order' = SortByMtime(jsonlFiles, fattr)
              /\ pc' = "between" /\ listed' = TRUE
              /\ UNCHANGED <<diag, escaped>>
  /\ UNCHANGED <<env, idx, cur, fileOK, streams, lineNumber, entryCount,
                 pendingCommands, fi, flushKind, rlOpen, fds, stopped,
                 emitted, seen, flushes, lastEnd, free, replaced, prefixLeft>>

\* createFileStream, lines 20-27, up to the first await of processLines
OpenStream(file, ok, prefix) ==
  /\ cur' = file /\ fileOK' = ok /\ streams' = streams + 1
  /\ lineNumber' = 0 /\ entryCount' = 0
  /\ rlOpen' = TRUE /\ fds' = IF ok THEN fds \cup {file} ELSE fds
  /\ seen' = <<>> /\ flushes' = {} /\ prefixLeft' = prefix
  /\ lastEnd' = "" /\ pc' = "next"
  /\ UNCHANGED <<env, order, idx, pendingCommands, fi, flushKind, escaped,
                 stopped, emitted, diag, listed, free, replaced>>

\* the loop of createProjectStream calls createFileStream for the next file
StartFile ==
  /\ pc = "between" /\ mode = "project" /\ idx <= Len(order)
  /\ OpenStream(order[idx], fattr[order[idx]].st = "ok", 0)

\* a direct caller calls createFileStream (again) on its parser
CallFileStream ==
  /\ pc = "between" /\ mode = "direct" /\ streams < MaxStreams
  /\ \E ok \in BOOLEAN : OpenStream(streams + 1, ok, 0)

\* a direct caller reads one long file
CallBulkStream ==
  /\ pc = "between" /\ mode = "bulk" /\ streams = 0
  /\ OpenStream(1, TRUE, BulkPrefix)

CallWideStream ==
  /\ pc = "between" /\ mode = "wide" /\ streams = 0
  /\ OpenStream(1, TRUE, 0)

CallGrowthStream ==
  /\ pc = "between" /\ mode = "growth" /\ streams = 0
  /\ OpenStream(1, TRUE, BulkPrefix)

\* the loop of createProjectStream is over: every generator returns
Finish ==
  /\ pc = "between" /\ mode = "project" /\ idx > Len(order)
  /\ pc' = "done"
  /\ UNCHANGED <<env, order, idx, cur, fileOK, streams, lineNumber, entryCount,
                 pendingCommands, fi, flushKind, rlOpen, fds, escaped, stopped,
                 emitted, diag, seen, flushes, lastEnd, listed, free, replaced, prefixLeft>>

\* the lines the file may hold next
NextLines ==
  IF prefixLeft > 0
  THEN {IF mode = "growth" THEN GrowthLine(lineNumber + 1)
        ELSE PrefixLine(lineNumber + 1)}
  ELSE IF mode = "project" /\ free < MaxProjectLines THEN ProjectLines
  ELSE IF mode = "direct" /\ free < MaxLines THEN FileLines
  ELSE IF mode = "bulk" /\ free < MaxTailLines THEN BulkLines
  ELSE IF mode = "growth" /\ free < MaxTailLines THEN GrowthLines
  ELSE IF mode = "wide" /\ free < MaxLines THEN WideLines
  ELSE {}

\* processLines, one turn of the for-await loop, up to the next suspension
ReadLine ==
  /\ pc = "next" /\ fileOK
  /\ \E line \in NextLines :
       /\ lineNumber' = lineNumber + 1
       /\ entryCount' = entryCount + 1
       /\ seen' = Append(seen, line)
       /\ prefixLeft' = IF prefixLeft > 0 THEN prefixLeft - 1 ELSE 0
       /\ free' = IF prefixLeft > 0 THEN free ELSE free + 1
       /\ IF line.kind = "blank" \/ ~lineContainsCommands(line)
          THEN \* continue
               /\ Park("next", pendingCommands, emitted, diag, 0, "")
               /\ flushes' = flushes /\ replaced' = replaced
          ELSE LET r == processEntry(line, lineNumber', cur, pendingCommands)
                   stack == FileStack(mode) \o <<"processEntry">>
               IN  /\ replaced' = replaced \cup Dropped(pendingCommands, r)
                   /\ IF r.error # "" /\ Handler(stack) # "processEntry"
                      THEN ThrowInFile(stack, "lineerror") /\ flushes' = flushes
                      ELSE IF r.error # ""
                      THEN \* lines 125-132: log and go on
                           cleanupOldPendingCommands(
                             r.pending, emitted,
                             Append(diag, LineDiag(cur, lineNumber', r.error)))
                      ELSE IF r.yields = <<>>
                      THEN cleanupOldPendingCommands(r.pending, emitted, diag)
                      ELSE /\ Park("yieldEntry", r.pending,
                                   Append(emitted,
                                          Emission(r.yields[1].cmd, cur,
                                                   lineNumber', r.yields[1].via)),
                                   diag, 0, "")
                           /\ flushes' = flushes
  /\ UNCHANGED <<env, order, cur, fileOK, streams, listed>>

\* the consumer asks for the next command after a yield of processEntry
ResumeEntry ==
  /\ pc = "yieldEntry"
  /\ UNCHANGED <<lineNumber, entryCount>>
  /\ cleanupOldPendingCommands(pendingCommands, emitted, diag)
  /\ UNCHANGED <<env, order, cur, fileOK, streams, seen, listed, free, replaced, prefixLeft>>

\* the consumer asks for the next command after a yield of the flush
ResumeFlush ==
  /\ pc = "yieldFlush"
  /\ UNCHANGED <<lineNumber, entryCount>>
  /\ flushPendingCommands(pendingCommands, emitted, diag, fi + 1, flushKind)
  /\ UNCHANGED <<env, order, cur, fileOK, streams, seen, flushes, listed, free, replaced,
                 prefixLeft>>

\* the file ends: createFileStream, line 30
EndOfFile ==
  /\ pc = "next" /\ fileOK /\ prefixLeft = 0
  /\ UNCHANGED <<lineNumber, entryCount>>
  /\ flushPendingCommands(pendingCommands, emitted, diag, 1, "eof")
  /\ UNCHANGED <<env, order, cur, fileOK, streams, seen, flushes, listed, free, replaced,
                 prefixLeft>>

\* reading the file fails (at once when it cannot be opened)
ReadError ==
  /\ pc = "next" /\ prefixLeft = 0
  /\ ThrowInFile(FileStack(mode), "readerror")
  /\ UNCHANGED <<env, order, cur, fileOK, streams, lineNumber, entryCount,
                 seen, flushes, listed, free, replaced, prefixLeft>>

\* the consumer ends the iteration at a yield: return() runs the finally
\* block of createFileStream and ends every enclosing generator.  The read
\* stream is not destroyed: its descriptor stays open unless the stream had
\* already read the file to its end.
Return ==
  /\ pc \in {"yieldEntry", "yieldFlush"}
  /\ stopped' = TRUE /\ rlOpen' = FALSE
  /\ \E closed \in BOOLEAN : fds' = IF closed THEN fds \ {cur} ELSE fds
  /\ pc' = IF mode = "project" THEN "done" ELSE "between"
  /\ idx' = idx + 1 /\ fi' = 0 /\ flushKind' = "" /\ lastEnd' = "return"
  /\ UNCHANGED <<env, order, cur, fileOK, streams, lineNumber, entryCount,
                 pendingCommands, escaped, emitted, diag, seen, flushes, listed,
                 free, replaced, prefixLeft>>

FileNext ==
  \/ ReadLine
  \/ ResumeEntry
  \/ ResumeFlush
  \/ EndOfFile
  \/ ReadError
  \/ Return

Next == ListFiles \/ StartFile \/ Finish \/ FileNext

NextDirect == CallFileStream \/ FileNext

NextBulk == CallBulkStream \/ FileNext

\* createResilientCommandStream over a project directory
Spec == InitProject /\ [][Next]_vars

\* createFileStream called up to MaxStreams times on one parser
SpecFile == InitDirect /\ [][NextDirect]_vars

\* createFileStream on one long file
SpecBulk == InitBulk /\ [][NextBulk]_vars

NextGrowth == CallGrowthStream \/ FileNext

\* normalizeBashCommand(input)
CallNormalize ==
  /\ mode = "normalize" /\ applied = 0
  /\ output' = normalizeBashCommand(input) /\ applied' = 1
  /\ UNCHANGED <<mode, dirOK, fattr, input, parser>>

\* normalizeBashCommand on the value the first call returned
CallNormalizeAgain ==
  /\ mode = "normalize" /\ applied = 1
  /\ output' = normalizeBashCommand(output) /\ applied' = 2
  /\ UNCHANGED <<mode, dirOK, fattr, input, parser>>

\* extractProjectRoot(projectPath)
CallExtractProjectRoot ==
  /\ mode = "root" /\ applied = 0
  /\ output' = extractProjectRoot(dirOK, input) /\ applied' = 1
  /\ UNCHANGED <<mode, dirOK, fattr, input, parser>>

NextRoot == CallExtractProjectRoot

\* extractProjectRoot on a directory of log files
SpecRoot == InitRoot /\ [][NextRoot]_vars

NextNormalize == CallNormalize \/ CallNormalizeAgain

\* normalizeBashCommand applied twice to a command text
SpecNormalize == InitNormalize /\ [][NextNormalize]_vars

NextWide == CallWideStream \/ FileNext

\* createFileStream on one file, with escaped and multi-block lines
SpecWide == InitWide /\ [][NextWide]_vars

SpecGrowth == InitGrowth /\ [][NextGrowth]_vars

(***************************************************************************)
(* What the history says about the lines of the current file.              *)
(***************************************************************************)
\* the line reaches processEntry
Accepted(line) == line.kind # "blank" /\ lineContainsCommands(line)

\* the line is not well-formed structured data: decoding it throws
Malformed(line) == line.kind # "blank" /\ EntryError(line) # ""

Decoded(line) == Accepted(line) /\ EntryError(line) = ""

HasBash(line) ==
  /\ line.entry.type = "assistant"
  /\ Decoded(line)
  /\ extractBashCommand(line.entry, <<0, 0>>) # <<>>

\* the identifier of a well-formed Bash tool use, 0 if the line is none
UseId(line) == IF HasBash(line) THEN extractToolUseId(line.entry) ELSE 0

\* a Bash tool use with a command and no identifier
NoIdUse(line) == HasBash(line) /\ extractToolUseId(line.entry) = 0

HasResult(line) ==
  /\ line.entry.type = "user"
  /\ Decoded(line)
  /\ extractToolResult(line.entry) # <<>>

ResId(line) ==
  IF HasResult(line) THEN extractToolResult(line.entry)[1].tool_use_id ELSE 0

ResErr(line) == extractToolResult(line.entry)[1].is_error

\* the emissions of the command that line i of file f created
EmittedFrom(f, i) == {k \in DOMAIN emitted : emitted[k].cmd.origin = <<f, i>>}

PendingFrom(f, i) ==
  {k \in DOMAIN pendingCommands : pendingCommands[k].cmd.origin = <<f, i>>}

LineDiags(f, i) ==
  {k \in DOMAIN diag : diag[k].kind = "line" /\ diag[k].file = f /\ diag[k].line = i}

Vias == {emitted[k].via : k \in DOMAIN emitted}

(***************************************************************************)
(* C1                                                                      *)
(***************************************************************************)
\* the line is a well-formed Bash tool use with identifier t
IsUse(line, t) ==
  /\ line.kind = "json" /\ line.entry.type = "assistant"
  /\ extractToolUseId(line.entry) = t
  /\ UseId(line) = t

\* the line carries a tool result for identifier t
IsRes(line, t) ==
  /\ line.kind = "json" /\ line.entry.type = "user"
  /\ ResId(line) = t

\* C1, as claimed: for every Bash tool use with identifier t and every tool
\* result for t in the same file, in either order, with no periodic flush
\* between the two lines, the command of the tool use is emitted with
\* success = !is_error.
C1_EitherOrder ==
  \A j \in 1..Len(seen) :
    (seen[j].entry.type = "user" /\ ResId(seen[j]) # 0) =>
      \A i \in 1..Len(seen) :
        (/\ i # j
         /\ IsUse(seen[i], ResId(seen[j]))
         /\ flushes \cap ((IF i < j THEN i ELSE j)..((IF i < j THEN j ELSE i) - 1)) = {})
        => \A k \in EmittedFrom(cur, i) :
             emitted[k].cmd.success = BoolStr(~ResErr(seen[j]))

\* C1, amended: when the line read, j, carries a result for t, a Bash tool
\* use for t is on an earlier line i, and between the two there is no other
\* Bash tool use for t, no other result for t and no periodic flush, then
\* reading line j emits the command of line i with success = !is_error
\* (false when is_error is absent); that is its only emission, and it is no
\* longer in the pending table.
C1_UseThenFirstResult ==
  [][(Len(seen') = Len(seen) + 1 /\ ResId(seen'[Len(seen')]) # 0) =>
       \A i \in 1..Len(seen) :
         (/\ IsUse(seen[i], ResId(seen'[Len(seen')]))
          /\ \A m \in (i + 1)..Len(seen) :
               /\ ~IsUse(seen[m], ResId(seen'[Len(seen')]))
               /\ ~IsRes(seen[m], ResId(seen'[Len(seen')]))
          /\ flushes \cap (i..Len(seen)) = {})
         => /\ Len(emitted') = Len(emitted) + 1
            /\ emitted'[Len(emitted')].cmd.origin = <<cur, i>>
            /\ emitted'[Len(emitted')].file = cur
            /\ emitted'[Len(emitted')].at = Len(seen')
            /\ emitted'[Len(emitted')].via = "result"
            /\ emitted'[Len(emitted')].cmd.success
                 = BoolStr(~ResErr(seen'[Len(seen')]))
            /\ \A k \in DOMAIN emitted : emitted[k].cmd.origin # <<cur, i>>
            /\ \A k \in DOMAIN pendingCommands' :
                 pendingCommands'[k].cmd.origin # <<cur, i>>]_vars

\* results have resolved one command as a success and one as a failure, and
\* the periodic flush has run in the same file
C1_Witness ==
  /\ flushes # {}
  /\ \E k \in DOMAIN emitted :
       /\ emitted[k].via = "result" /\ emitted[k].file = cur
       /\ emitted[k].cmd.success = "true"
  /\ \E k \in DOMAIN emitted :
       /\ emitted[k].via = "result" /\ emitted[k].file = cur
       /\ emitted[k].cmd.success = "false"

(***************************************************************************)
(* C2                                                                      *)
(***************************************************************************)
\* C2: when a file has been read to its end the pending table is empty, and
\* a file with one unmatched Bash tool use and no result line has yielded
\* exactly one command, with success = true.
C2_EndOfFileFlush ==
  lastEnd = "eof" =>
    /\ pendingCommands = <<>>
    /\ (/\ Cardinality({i \in 1..Len(seen) : UseId(seen[i]) # 0}) = 1
        /\ \A i \in 1..Len(seen) :
             ~HasResult(seen[i]) /\ ~NoIdUse(seen[i])
             /\ extractUserCommand(seen[i].entry, <<0, 0>>) = <<>>)
       => /\ Cardinality({k \in DOMAIN emitted : emitted[k].file = cur}) = 1
          /\ \A k \in DOMAIN emitted :
               emitted[k].file = cur => emitted[k].cmd.success = "true"

(***************************************************************************)
(* C3                                                                      *)
(***************************************************************************)
\* C3: a Bash tool use with a command and no identifier is emitted exactly
\* once, with success = true, while its own line is processed (so before
\* the next line is read), and is never in the pending table.
C3_NoIdImmediate ==
  \A i \in 1..Len(seen) :
    NoIdUse(seen[i]) =>
      /\ Cardinality(EmittedFrom(cur, i)) = 1
      /\ \A k \in EmittedFrom(cur, i) :
           /\ emitted[k].file = cur /\ emitted[k].at = i
           /\ emitted[k].cmd.success = "true"
           /\ emitted[k].cmd.source = "bash"
      /\ PendingFrom(cur, i) = {}

\* the command was emitted while another command was waiting for its result
C3_Witness ==
  /\ pendingCommands # <<>>
  /\ \E i \in 1..Len(seen) : NoIdUse(seen[i]) /\ EmittedFrom(cur, i) # {}

(***************************************************************************)
(* C4                                                                      *)
(***************************************************************************)
\* C4: whenever a command with source = user is emitted, it has
\* success = true, it comes from the line read in that very step, and the
\* pending table is what it was before the line was read.
C4_UserCommandImmediate ==
  [][(/\ Len(emitted') = Len(emitted) + 1
      /\ emitted'[Len(emitted')].cmd.source = "user")
     => /\ emitted'[Len(emitted')].cmd.success = "true"
        /\ Len(seen') = Len(seen) + 1
        /\ emitted'[Len(emitted')].cmd.origin = <<cur, Len(seen')>>
        /\ emitted'[Len(emitted')].at = Len(seen')
        /\ pendingCommands' = pendingCommands]_vars

\* a user command was emitted after a failed tool result, with a command
\* pending
C4_Witness ==
  /\ pendingCommands # <<>>
  /\ \E k \in DOMAIN emitted : emitted[k].cmd.source = "user" /\ emitted[k].file = cur
  /\ \E i \in 1..Len(seen) : HasResult(seen[i]) /\ ResErr(seen[i])

(***************************************************************************)
(* C5                                                                      *)
(***************************************************************************)
\* what C5 says of a Bash tool use and its result that follow a malformed
\* line: reading the result emits the one command, correctly resolved
Resilient ==
  (/\ Len(seen') >= 3
   /\ Malformed(seen[Len(seen') - 2])
   /\ UseId(seen[Len(seen') - 1]) # 0
   /\ ResId(seen'[Len(seen')]) = UseId(seen[Len(seen') - 1])
   /\ (Len(seen') - 1) \notin flushes)
  => /\ Len(emitted') = Len(emitted) + 1
     /\ emitted'[Len(emitted')].cmd.origin = <<cur, Len(seen') - 1>>
     /\ emitted'[Len(emitted')].cmd.success = BoolStr(~ResErr(seen'[Len(seen')]))
     /\ \A k \in DOMAIN emitted : emitted[k].cmd.origin # <<cur, Len(seen') - 1>>

\* the stream is still running after the step
GoesOn == pc' \in {"next", "yieldFlush"} /\ lastEnd' = lastEnd /\ ~escaped'

\* C5, as claimed: reading a non-blank malformed line writes exactly one
\* diagnostic and emits no command, the stream goes on, and a following
\* Bash tool use and its result yield one correctly resolved command.
C5_EveryMalformedLine ==
  [][Len(seen') = Len(seen) + 1 =>
       /\ Malformed(seen'[Len(seen')]) =>
            /\ Len(diag') = Len(diag) + 1
            /\ diag'[Len(diag')].kind = "line"
            /\ diag'[Len(diag')].file = cur
            /\ diag'[Len(diag')].line = Len(seen')
            /\ emitted' = emitted
            /\ GoesOn
       /\ Resilient]_vars

\* C5, amended: reading a non-blank malformed line writes exactly one
\* diagnostic if the line classifier accepts the line and none if it does
\* not; in both cases the line creates no command and adds nothing to the
\* pending table, the only command that may be emitted is the first of a
\* periodic flush (the line counts for the flush schedule if the classifier
\* accepts it), the stream goes on, and a following Bash tool use and its
\* result yield one correctly resolved command.
C5_AcceptedMalformedLine ==
  [][Len(seen') = Len(seen) + 1 =>
       /\ Malformed(seen'[Len(seen')]) =>
            /\ diag' = IF lineContainsCommands(seen'[Len(seen')])
                       THEN Append(diag, LineDiag(cur, Len(seen'),
                                                  EntryError(seen'[Len(seen')])))
                       ELSE diag
            /\ \/ emitted' = emitted /\ pendingCommands' = pendingCommands
               \/ /\ lineContainsCommands(seen'[Len(seen')])
                  /\ Len(emitted') = Len(emitted) + 1
                  /\ emitted'[Len(emitted')].via = "cleanup"
                  /\ emitted'[Len(emitted')].cmd.origin # <<cur, Len(seen')>>
                  /\ Len(pendingCommands') = Len(pendingCommands)
                  /\ \A k \in DOMAIN pendingCommands :
                       pendingCommands'[k].cmd.origin = pendingCommands[k].cmd.origin
            /\ GoesOn
       /\ Resilient]_vars

\* a malformed line that was logged, then a Bash tool use and its failed
\* result, which resolved it
C5_Witness ==
  /\ Len(seen) >= 3 /\ emitted # <<>>
  /\ Malformed(seen[Len(seen) - 2])
  /\ \E k \in DOMAIN diag : diag[k] = LineDiag(cur, Len(seen) - 2, "JSON syntax")
  /\ UseId(seen[Len(seen) - 1]) # 0
  /\ ResId(seen[Len(seen)]) = UseId(seen[Len(seen) - 1])
  /\ emitted[Len(emitted)].cmd.origin = <<cur, Len(seen) - 1>>
  /\ emitted[Len(emitted)].cmd.success = "false"

C7_OnlyFailedFileSkipped ==
  (pc = "done" /\ dirOK /\ ~stopped) =>
    \A f \in Files :
      (fattr[f].jsonl /\ fattr[f].st # "gone")
        => /\ \E i \in 1..(idx - 1) : i <= Len(order) /\ order[i] = f
           /\ (fattr[f].st = "unreadable"
                 => \E k \in DOMAIN diag : diag[k] = FileDiag(f))

C9_SuccessAlwaysSet ==
  \A k \in DOMAIN emitted : emitted[k].cmd.success \in {"true", "false"}

\* commands were emitted by a matched result, by the periodic flush and by
\* the end-of-file flush
C9_Witness == {"result", "cleanup", "eof"} \subseteq Vias

(***************************************************************************)
(* C10                                                                     *)
(***************************************************************************)
\* C10: when the next line is about to be read and the number of lines read
\* is a multiple of maxPendingEntries, the pending table holds at most
\* maxPendingEntries commands (more would have been flushed).
C10_FlushEveryNthLine ==
  (pc = "next" /\ entryCount > 0 /\ entryCount % maxPendingEntries = 0)
    => Len(pendingCommands) <= maxPendingEntries

(***************************************************************************)
(* C11                                                                     *)
(***************************************************************************)
\* C11: the pending table never holds more than 2N commands, N being
\* maxPendingEntries.
C11_PendingBounded == Len(pendingCommands) <= 2 * maxPendingEntries

(***************************************************************************)
(* C12                                                                     *)
(***************************************************************************)
\* decoding the line and applying the three extractors yields something
Useful(line) ==
  /\ line.kind = "json" /\ EntryError(line) = ""
  /\ \/ extractBashCommand(line.entry, <<0, 0>>) # <<>>
     \/ extractToolResult(line.entry) # <<>>
     \/ extractUserCommand(line.entry, <<0, 0>>) # <<>>

\* the commands a new parser yields for the lines from the n-th on when
\* processLines decodes every non-blank line: lines 52-56 and 63-68 without
\* lines 59-61, then the end-of-file flush
RECURSIVE DecodeAll(_, _, _, _)
DecodeAll(lines, n, file, pending) ==
  LET Flush(p) == [k \in 1..Len(p) |-> [p[k].cmd EXCEPT !.success = OrphanSuccess]]
  IN  IF n > Len(lines) THEN Flush(pending)
      ELSE IF lines[n].kind = "blank" THEN DecodeAll(lines, n + 1, file, pending)
      ELSE LET r == processEntry(lines[n], n, file, pending)
               ys == [k \in 1..Len(r.yields) |-> r.yields[k].cmd]
           IN  IF n % maxPendingEntries = 0 /\ Len(r.pending) > maxPendingEntries
               THEN ys \o Flush(r.pending) \o DecodeAll(lines, n + 1, file, <<>>)
               ELSE ys \o DecodeAll(lines, n + 1, file, r.pending)

\* C12: lineContainsCommands accepts every line whose decoding would yield
\* a Bash command, a tool result or a user command; and when a file has
\* been read to its end by a new parser, the commands emitted are those
\* that decoding every non-blank line would have emitted, in the same
\* order.
C12_ClassifierSafe ==
  /\ \A i \in 1..Len(seen) : Useful(seen[i]) => lineContainsCommands(seen[i])
  /\ (lastEnd = "eof" /\ streams = 1)
       => [k \in 1..Len(emitted) |-> emitted[k].cmd] = DecodeAll(seen, 1, cur, <<>>)

(***************************************************************************)
(* C13                                                                     *)
(***************************************************************************)
\* C13: no file descriptor is open while no file stream is running, and
\* while one is running only the descriptor of its file may be open.
C13_HandleReleased ==
  /\ pc \in {"start", "between", "done"} => fds = {}
  /\ fds \subseteq {cur}

(***************************************************************************)
(* C14                                                                     *)
(***************************************************************************)
\* C14: normalizing the result of normalizeBashCommand(x) again gives
\* normalizeBashCommand(x).
C14_NormalizeIdempotent == applied = 2 => output = normalizeBashCommand(input)

\* a text of several lines with white space to trim was normalized twice,
\* and the result has the two-character separator
C14_Witness ==
  /\ applied = 2 /\ output # input
  /\ \E i \in 1..Len(input) : input[i] = NL
  /\ Head(input) = " "
  /\ \E i \in 1..Len(output) : output[i] = BS

(***************************************************************************)
(* C15                                                                     *)
(***************************************************************************)
\* the lines <<f, i>> among the first maxLines lines of the .jsonl files of
\* the listing
HeadLines ==
  {fl \in (1..NumFiles) \X (1..maxLines) :
     input[fl[1]].jsonl /\ fl[2] <= Len(input[fl[1]].lines)}
\* the first of a non-empty set of lines, files in enumeration order
FirstOf(C) ==
  CHOOSE fl \in C : \A o \in C : fl[1] < o[1] \/ (fl[1] = o[1] /\ fl[2] <= o[2])
\* what the claim says of the lines C that count as having a cwd
RootIs(C) ==
  IF ~dirOK \/ C = {} THEN ~output.found
  ELSE output.found /\ output.cwd = input[FirstOf(C)[1]].lines[FirstOf(C)[2]].val

\* C15 as stated: extractProjectRoot returns the cwd of the first line,
\* among the first maxLines lines of each file in enumeration order, that
\* has a cwd field, and none when there is no such line.
C15_FirstCwdField ==
  applied = 1 =>
    RootIs({fl \in HeadLines : LET l == input[fl[1]].lines[fl[2]]
                                IN l.json /\ l.has})

\* C15: extractProjectRoot returns the cwd of the first line, among the
\* first maxLines lines of each .jsonl file in enumeration order, whose cwd
\* field is not empty, and none when there is no such line or the directory
\* cannot be listed; malformed lines, lines after line maxLines, files that
\* fail to read and files of other names are passed over.
C15_FirstNonEmptyCwd ==
  applied = 1 =>
    RootIs({fl \in HeadLines : Truthy(input[fl[1]].lines[fl[2]])})

\* the first file has a cwd on line maxLines + 1 only and then fails; the
\* second has a malformed line and then the cwd that is returned
C15_Witness ==
  /\ mode = "root" /\ applied = 1 /\ dirOK
  /\ input[1].jsonl /\ input[1].err /\ Len(input[1].lines) = maxLines + 1
  /\ Truthy(input[1].lines[maxLines + 1])
  /\ input[2].jsonl /\ Len(input[2].lines) = 2
  /\ ~input[2].lines[1].json /\ Truthy(input[2].lines[2])
  /\ output.found /\ output.cwd = input[2].lines[2].val

(***************************************************************************)
(* C16                                                                     *)
(***************************************************************************)
\* C16: when the consumer has drained the stream, no command is left in the
\* pending table, no command was emitted twice, and every Bash tool use
\* with an identifier of the last file read whose command was not
\* overwritten has been emitted, whatever the outcome of the file reads.
C16_PendingEmittedOnce ==
  (pc = "done" /\ ~stopped) =>
    /\ pendingCommands = <<>>
    /\ \A k1, k2 \in DOMAIN emitted :
         emitted[k1].cmd.origin = emitted[k2].cmd.origin => k1 = k2
    /\ \A i \in 1..Len(seen) :
         (UseId(seen[i]) # 0 /\ <<cur, i>> \notin replaced)
           => Cardinality(EmittedFrom(cur, i)) = 1

(***************************************************************************)
(* C17                                                                     *)
(***************************************************************************)
\* C17: when the line read is a Bash tool use with identifier t and a
\* command is pending under t, the step emits nothing, the pending table
\* keeps its size and holds the new command under t, and the old command is
\* recorded as replaced; no step emits a command that was replaced; the
\* pending table never holds two commands under one identifier.
C17_OverwriteReplaces ==
  [][/\ (/\ Len(seen') = Len(seen) + 1
         /\ UseId(seen'[Len(seen')]) # 0
         /\ MapHas(pendingCommands, UseId(seen'[Len(seen')])))
        => /\ emitted' = emitted
           /\ Len(pendingCommands') = Len(pendingCommands)
           /\ MapGet(pendingCommands', UseId(seen'[Len(seen')])).origin
                = <<cur, lineNumber'>>
           /\ MapGet(pendingCommands, UseId(seen'[Len(seen')])).origin \in replaced'
     /\ \A k \in (Len(emitted) + 1)..Len(emitted') :
          emitted'[k].cmd.origin \notin replaced'
     /\ \A i, j \in DOMAIN pendingCommands' :
          pendingCommands'[i].id = pendingCommands'[j].id => i = j]_vars

\* a Bash tool use overwrote the command of an earlier line of the file,
\* and the new command has been emitted
C17_Witness ==
  \E i \in 2..Len(seen) :
    /\ UseId(seen[i]) # 0 /\ EmittedFrom(cur, i) # {}
    /\ \E j \in 1..(i - 1) :
         IsUse(seen[j], UseId(seen[i])) /\ <<cur, j>> \in replaced

(***************************************************************************)
(* C18                                                                     *)
(***************************************************************************)
\* C18: when the line read carries a tool result whose tool_use_id is not a
\* key of the pending table, the step writes no diagnostic and, unless the
\* line is one on which the periodic flush runs, emits nothing and leaves
\* the pending table as it was; when the periodic flush runs after the
\* line, the only emission is the flush of the oldest pending command, so
\* in both cases no command that was already emitted is emitted again.
C18_UnmatchedResultDropped ==
  [][(/\ Len(seen') = Len(seen) + 1
      /\ ResId(seen'[Len(seen')]) # 0
      /\ \A k \in DOMAIN pendingCommands :
           pendingCommands[k].id # ResId(seen'[Len(seen')]))
     => /\ diag' = diag
        /\ IF lineNumber' \in flushes'
           THEN /\ Len(emitted') = Len(emitted) + 1
                /\ emitted'[Len(emitted')].via = "cleanup"
                /\ emitted'[Len(emitted')].cmd.origin = pendingCommands[1].cmd.origin
                /\ [k \in DOMAIN emitted |-> emitted'[k]] = emitted
                /\ [k \in DOMAIN pendingCommands' |-> pendingCommands'[k].id]
                     = [k \in DOMAIN pendingCommands |-> pendingCommands[k].id]
           ELSE emitted' = emitted /\ pendingCommands' = pendingCommands
        /\ \A k \in DOMAIN emitted' : \A i \in 1..Len(seen) :
             (IsUse(seen[i], ResId(seen'[Len(seen')]))
              /\ emitted'[k].cmd.origin = <<cur, i>>) => emitted'[k] = emitted[k]]_vars

\* a result has come for a command that the periodic flush had emitted,
\* the file has been read to its end, and the command was emitted once
C18_Witness ==
  /\ lastEnd = "eof"
  /\ \E j \in 2..Len(seen) : \E i \in 1..(j - 1) :
       /\ ResId(seen[j]) # 0 /\ IsUse(seen[i], ResId(seen[j]))
       /\ Cardinality(EmittedFrom(cur, i)) = 1
       /\ \E k \in EmittedFrom(cur, i) :
            /\ emitted[k].via = "cleanup" /\ emitted[k].at < j
            /\ emitted[k].cmd.success = "true"

(***************************************************************************)
(* C19                                                                     *)
(***************************************************************************)
\* the blocks of the entry of a line, and where its Bash tool_use blocks
\* and its tool_result blocks with a tool_use_id stand
LineBlocks(line) ==
  IF line.entry.content.form = "blocks" THEN line.entry.content.blocks ELSE <<>>
BashAt(line) ==
  {i \in 1..Len(LineBlocks(line)) :
     LineBlocks(line)[i].type = "tool_use" /\ LineBlocks(line)[i].name = "Bash"}
ResultAt(line) ==
  {i \in 1..Len(LineBlocks(line)) :
     LineBlocks(line)[i].type = "tool_result" /\ LineBlocks(line)[i].tool_use_id # 0}
Least(S) == CHOOSE i \in S : \A j \in S : i <= j

\* what reading an assistant line with Bash blocks does, b being the first
AssistantStep(b) ==
  IF b.command = <<>> THEN emitted' = emitted /\ pendingCommands' = pendingCommands
  ELSE IF b.id = 0
  THEN /\ pendingCommands' = pendingCommands
       /\ Len(emitted') = Len(emitted) + 1
       /\ emitted'[Len(emitted')].cmd.command = normalizeBashCommand(b.command)
  ELSE /\ emitted' = emitted
       /\ \E k \in DOMAIN pendingCommands' :
            /\ pendingCommands'[k].id = b.id
            /\ pendingCommands'[k].cmd.command = normalizeBashCommand(b.command)
            /\ pendingCommands'[k].cmd.origin = <<cur, lineNumber'>>
       /\ \A k \in DOMAIN pendingCommands' :
            pendingCommands'[k].id # b.id
              => k \in DOMAIN pendingCommands
                 /\ pendingCommands'[k] = pendingCommands[k]

\* what reading a user line with tool results does, b being the first that
\* has a tool_use_id
UserStep(b) ==
  LET Other(e) == e.id # b.tool_use_id
      hit == {k \in DOMAIN pendingCommands : pendingCommands[k].id = b.tool_use_id}
  IN  /\ pendingCommands' = SelectSeq(pendingCommands, Other)
      /\ IF hit = {} THEN emitted' = emitted
         ELSE /\ Len(emitted') = Len(emitted) + 1
              /\ \E k \in hit :
                   emitted'[Len(emitted')].cmd
                     = [pendingCommands[k].cmd
                          EXCEPT !.success = BoolStr(b.is_error # "true")]

\* C19: a step that reads a line the classifier accepts yields at most one
\* command and adds at most one pending command; for an assistant entry
\* what is stored or emitted is the command of the first Bash tool_use
\* block under that block's id and every other key of the table is left as
\* it was; for a user entry with block content only the command under the
\* tool_use_id of the first tool_result block that has one is resolved.
C19_FirstBlockOnly ==
  [][(/\ Len(seen') = Len(seen) + 1
      /\ seen'[Len(seen')].kind = "json"
      /\ lineContainsCommands(seen'[Len(seen')]))
     => /\ Len(processEntry(seen'[Len(seen')], lineNumber', cur,
                            pendingCommands).yields) <= 1
        /\ Len(emitted') <= Len(emitted) + 1
        /\ Len(pendingCommands') <= Len(pendingCommands) + 1
        /\ (seen'[Len(seen')].entry.type = "assistant"
              /\ BashAt(seen'[Len(seen')]) # {})
             => AssistantStep(LineBlocks(seen'[Len(seen')])
                                [Least(BashAt(seen'[Len(seen')]))])
        /\ (seen'[Len(seen')].entry.type = "user"
              /\ ResultAt(seen'[Len(seen')]) # {})
             => UserStep(LineBlocks(seen'[Len(seen')])
                           [Least(ResultAt(seen'[Len(seen')]))])]_vars

\* an entry with two Bash blocks stored its first only, and an entry with
\* two results resolved that command and left the command that its second
\* result names pending
C19_Witness ==
  /\ Len(seen) = 3
  /\ Cardinality(BashAt(seen[2])) = 2 /\ Cardinality(ResultAt(seen[3])) = 2
  /\ Len(emitted) = 1 /\ emitted[1].via = "result"
  /\ emitted[1].cmd.origin = <<cur, 2>> /\ emitted[1].cmd.success = "true"
  /\ Len(pendingCommands) = 1
  /\ pendingCommands[1].id = LineBlocks(seen[3])[2].tool_use_id
  /\ pendingCommands[1].cmd.origin = <<cur, 1>>

(***************************************************************************)
(* C20                                                                     *)
(***************************************************************************)
\* C20: when createFileStream starts to read a file the pending table is
\* empty, and every command emitted during the stream of a file was
\* created by a line of that file.
C20_NoCrossFileCorrelation ==
  /\ (pc = "next" /\ Len(seen) = 0) => pendingCommands = <<>>
  /\ \A k \in DOMAIN emitted : emitted[k].cmd.origin[1] = emitted[k].file

====
